---------------------------- MODULE Spec2Model ----------------------------
(***************************************************************************)
(* Model of the panoptic-segmentation adapter layer                        *)
(* (src/src/tasks/panoptic_segmentation/adapters.py), of the steps of the  *)
(* semantic-segmentation model                                             *)
(* (src/src/tasks/semantic_segmentation/model.py) and of UnifiedTrainer    *)
(* (src/src/training/trainer.py).                                          *)
(*                                                                         *)
(* A Python dict is a TLA+ function whose DOMAIN is its key set.  A tensor *)
(* is the sequence of its slices along the leading (batch) axis.  A call   *)
(* either returns a value (Ok) or raises a Python exception (Raise).       *)
(***************************************************************************)
EXTENDS Integers, Sequences, FiniteSets, TLC

(***************************************************************************)
(* Bounds of the model.                                                    *)
(***************************************************************************)
MaxBatch == 2
NumClasses == 2
MaxScore == 1
MaxOffset == 1
MaxSince == 2
MaxTrainers == 2
MaxUpdates == 3

(***************************************************************************)
(* Python values.                                                          *)
(***************************************************************************)
None == "None"
EmptyDict == [k \in {} |-> None]
LossValues == {"loss_a"}
LossDicts == {[loss_ce |-> "loss_a"]}

Ok(v) == [ok |-> TRUE, val |-> v]
\* msg is the set of field names the exception's message mentions
Raise(exc, names) == [ok |-> FALSE, exc |-> exc, msg |-> names]

Min(a, b) == IF a < b THEN a ELSE b

\* a tensor with n slices along the batch axis; slice i holds the value o + i
Tensor(n, o) == [i \in 1..n |-> o + i]

\* logits: one row of class scores per sample; the row of sample i is the
\* row of the first sample rotated by i - 1 classes
Rotate(row, by) == [k \in 1..Len(row) |-> row[((k - 1 + by) % Len(row)) + 1]]
LogitTensor(n, row) == [i \in 1..n |-> Rotate(row, i - 1)]

\* tensor.shape[0]
Shape0(t) == Len(t)

\* torch.argmax(row, dim=-1): zero-based index of the first maximal score
ArgMax(row) ==
    (CHOOSE j \in 1..Len(row) :
        /\ \A k \in 1..Len(row) : row[k] <= row[j]
        /\ \A k \in 1..(j - 1) : row[k] < row[j]) - 1

(***************************************************************************)
(* Raw model output: an object whose fields are reachable as attributes    *)
(* (attrs), as mapping keys (keys, only when the object is a dict), or     *)
(* both (a Hugging Face ModelOutput is a dict with attribute access).      *)
(***************************************************************************)
HasAttr(o, f) == f \in DOMAIN o.attrs
GetAttr(o, f, default) == IF HasAttr(o, f) THEN o.attrs[f] ELSE default
DictGet(d, k, default) == IF k \in DOMAIN d THEN d[k] ELSE default

PredFields == <<"logits", "pred_boxes", "pred_masks", "pred_panoptic_seg">>

\* first of the attribute reads outputs.logits .. outputs.pred_panoptic_seg
\* that fails, 0 when none does
FirstMissingAttr(o) ==
    IF \A j \in 1..Len(PredFields) : HasAttr(o, PredFields[j]) THEN 0
    ELSE CHOOSE j \in 1..Len(PredFields) :
            /\ ~HasAttr(o, PredFields[j])
            /\ \A k \in 1..(j - 1) : HasAttr(o, PredFields[k])

\* adapt_output reading loss_dict as it reads the prediction fields, so that
\* a raw output without loss_dict is rejected
adapt_output_strict(outputs) ==
    LET attr_loss == GetAttr(outputs, "loss", None)
        loss == IF attr_loss = None /\ outputs.isdict
                THEN DictGet(outputs.keys, "loss", None)
                ELSE attr_loss
        missing == FirstMissingAttr(outputs)
    IN  IF missing # 0
        THEN Raise("AttributeError", {PredFields[missing]})
        ELSE IF ~HasAttr(outputs, "loss_dict")
        THEN Raise("AttributeError", {"loss_dict"})
        ELSE Ok([loss |-> loss,
                 logits |-> outputs.attrs["logits"],
                 pred_boxes |-> outputs.attrs["pred_boxes"],
                 pred_masks |-> outputs.attrs["pred_masks"],
                 pred_panoptic_seg |-> outputs.attrs["pred_panoptic_seg"],
                 loss_dict |-> outputs.attrs["loss_dict"]])

\* PanopticSegmentationOutputAdapter.adapt_output
adapt_output(outputs) ==
    LET attr_loss == GetAttr(outputs, "loss", None)
        loss == IF attr_loss = None /\ outputs.isdict
                THEN DictGet(outputs.keys, "loss", None)
                ELSE attr_loss
        missing == FirstMissingAttr(outputs)
    IN  IF missing # 0
        THEN Raise("AttributeError", {PredFields[missing]})
        ELSE Ok([loss |-> loss,
                 logits |-> outputs.attrs["logits"],
                 pred_boxes |-> outputs.attrs["pred_boxes"],
                 pred_masks |-> outputs.attrs["pred_masks"],
                 pred_panoptic_seg |-> outputs.attrs["pred_panoptic_seg"],
                 loss_dict |-> GetAttr(outputs, "loss_dict", EmptyDict)])

\* adapt_targets filling in an empty boxes tensor when the annotation has no
\* bounding_boxes
adapt_targets_defaulting(targets) ==
    LET labels_part ==
            IF "panoptic_masks" \in DOMAIN targets
            THEN [k \in {"labels"} |-> targets["panoptic_masks"]]
            ELSE IF "labels" \in DOMAIN targets
            THEN [k \in {"labels"} |-> targets["labels"]]
            ELSE EmptyDict
        boxes_part ==
            [k \in {"boxes"} |-> DictGet(targets, "bounding_boxes", <<>>)]
        class_part ==
            IF "class_labels" \in DOMAIN targets
            THEN [k \in {"class_labels"} |-> targets["class_labels"]]
            ELSE EmptyDict
    IN  Ok(labels_part @@ boxes_part @@ class_part)

\* adapt_targets testing the generic labels key before panoptic_masks
adapt_targets_labels_first(targets) ==
    LET labels_part ==
            IF "labels" \in DOMAIN targets
            THEN [k \in {"labels"} |-> targets["labels"]]
            ELSE IF "panoptic_masks" \in DOMAIN targets
            THEN [k \in {"labels"} |-> targets["panoptic_masks"]]
            ELSE EmptyDict
        boxes_part ==
            IF "bounding_boxes" \in DOMAIN targets
            THEN [k \in {"boxes"} |-> targets["bounding_boxes"]]
            ELSE EmptyDict
        class_part ==
            IF "class_labels" \in DOMAIN targets
            THEN [k \in {"class_labels"} |-> targets["class_labels"]]
            ELSE EmptyDict
    IN  Ok(labels_part @@ boxes_part @@ class_part)

\* PanopticSegmentationOutputAdapter.adapt_targets
adapt_targets(targets) ==
    LET labels_part ==
            IF "panoptic_masks" \in DOMAIN targets
            THEN [k \in {"labels"} |-> targets["panoptic_masks"]]
            ELSE IF "labels" \in DOMAIN targets
            THEN [k \in {"labels"} |-> targets["labels"]]
            ELSE EmptyDict
        boxes_part ==
            IF "bounding_boxes" \in DOMAIN targets
            THEN [k \in {"boxes"} |-> targets["bounding_boxes"]]
            ELSE EmptyDict
        class_part ==
            IF "class_labels" \in DOMAIN targets
            THEN [k \in {"class_labels"} |-> targets["class_labels"]]
            ELSE EmptyDict
    IN  Ok(labels_part @@ boxes_part @@ class_part)

\* first of the key reads outputs["logits"] .. outputs["pred_panoptic_seg"]
\* that fails, 0 when none does
FirstMissingKey(d) ==
    IF \A j \in 1..Len(PredFields) : PredFields[j] \in DOMAIN d THEN 0
    ELSE CHOOSE j \in 1..Len(PredFields) :
            /\ PredFields[j] \notin DOMAIN d
            /\ \A k \in 1..(j - 1) : PredFields[k] \in DOMAIN d

\* the prediction record with the boxes of the first sample in every record
PredictionRecordFirstBox(outputs, i) ==
    [panoptic_masks |-> outputs["pred_panoptic_seg"][i],
     instance_masks |-> outputs["pred_masks"][i],
     bounding_boxes |-> outputs["pred_boxes"][1],
     class_predictions |-> ArgMax(outputs["logits"][i])]

\* the record format_predictions appends for sample i
PredictionRecord(outputs, i) ==
    [panoptic_masks |-> outputs["pred_panoptic_seg"][i],
     instance_masks |-> outputs["pred_masks"][i],
     bounding_boxes |-> outputs["pred_boxes"][i],
     class_predictions |-> ArgMax(outputs["logits"][i])]

\* PanopticSegmentationOutputAdapter.format_predictions
format_predictions(outputs) ==
    LET missing == FirstMissingKey(outputs)
    IN  IF missing # 0
        THEN Raise("KeyError", {PredFields[missing]})
        ELSE LET n == Shape0(outputs["logits"])
                 shortest == Min(Shape0(outputs["pred_panoptic_seg"]),
                                 Min(Shape0(outputs["pred_masks"]),
                                     Shape0(outputs["pred_boxes"])))
             IN  IF shortest < n
                 THEN Raise("IndexError", {})
                 ELSE Ok([i \in 1..n |-> PredictionRecord(outputs, i)])

\* the record format_targets appends for sample i; targets.get(key, None)
\* is None exactly when the key is absent, the values being tensors
TargetRecord(targets, masks, i) ==
    [k \in {"panoptic_masks"} |-> masks[i]]
    @@ (IF "bounding_boxes" \in DOMAIN targets
        THEN [k \in {"bounding_boxes"} |-> targets["bounding_boxes"][i]]
        ELSE EmptyDict)
    @@ (IF "class_labels" \in DOMAIN targets
        THEN [k \in {"class_labels"} |-> targets["class_labels"][i]]
        ELSE EmptyDict)

\* format_targets returning no records instead of raising when the
\* annotation has no mask key
format_targets_lenient(targets) ==
    IF ~("panoptic_masks" \in DOMAIN targets \/ "labels" \in DOMAIN targets)
    THEN Ok(<<>>)
    ELSE LET masks == IF "panoptic_masks" \in DOMAIN targets
                      THEN targets["panoptic_masks"] ELSE targets["labels"]
             n == Shape0(masks)
             tooShort(k) == k \in DOMAIN targets /\ Shape0(targets[k]) < n
         IN  IF tooShort("bounding_boxes") \/ tooShort("class_labels")
             THEN Raise("IndexError", {})
             ELSE Ok([i \in 1..n |-> TargetRecord(targets, masks, i)])

\* PanopticSegmentationOutputAdapter.format_targets
format_targets(targets) ==
    IF ~("panoptic_masks" \in DOMAIN targets \/ "labels" \in DOMAIN targets)
    THEN Raise("ValueError", {"panoptic_masks", "labels"})
    ELSE LET masks == IF "panoptic_masks" \in DOMAIN targets
                      THEN targets["panoptic_masks"] ELSE targets["labels"]
             n == Shape0(masks)
             tooShort(k) == k \in DOMAIN targets /\ Shape0(targets[k]) < n
         IN  IF tooShort("bounding_boxes") \/ tooShort("class_labels")
             THEN Raise("IndexError", {})
             ELSE Ok([i \in 1..n |-> TargetRecord(targets, masks, i)])

(***************************************************************************)
(* The four operations as calls on an adapter instance: what the call      *)
(* leaves in the instance's attributes (self) and in the argument object   *)
(* (arg), and what it returns or raises (ret).  No statement of the four   *)
(* methods assigns to self or to an item or attribute of the argument:     *)
(* each builds its result in a local (adapted, predictions,                *)
(* formatted_targets).                                                     *)
(***************************************************************************)
adapt_output_call(self, outputs) ==
    [self |-> self, arg |-> outputs, ret |-> adapt_output(outputs)]

\* adapt_targets re-keying the annotation in place and returning it
adapt_targets_call_in_place(self, targets) ==
    LET r == adapt_targets(targets)
    IN  [self |-> self, arg |-> IF r.ok THEN r.val ELSE targets, ret |-> r]

adapt_targets_call(self, targets) ==
    [self |-> self, arg |-> targets, ret |-> adapt_targets(targets)]

format_predictions_call(self, outputs) ==
    [self |-> self, arg |-> outputs, ret |-> format_predictions(outputs)]

format_targets_call(self, targets) ==
    [self |-> self, arg |-> targets, ret |-> format_targets(targets)]

(***************************************************************************)
(* The formatting loops one iteration at a time: the body of the loop for  *)
(* sample i (counted from 1), given the list built so far.  The list is a  *)
(* local of the call; self is the adapter the call was made on.            *)
(***************************************************************************)
\* the loop body of format_predictions keeping the list in an attribute of
\* the adapter, emptied by the first iteration
format_predictions_iter_on_self(self, result, outputs, i) ==
    LET buf == IF i = 1 THEN <<>> ELSE DictGet(self, "result", <<>>)
        r == Append(buf, PredictionRecord(outputs, i))
    IN  IF \E k \in 2..Len(PredFields) : Shape0(outputs[PredFields[k]]) < i
        THEN [self |-> self, ret |-> Raise("IndexError", {})]
        ELSE [self |-> [k \in {"result"} |-> r], ret |-> Ok(r)]

format_predictions_iter(self, result, outputs, i) ==
    IF \E k \in 2..Len(PredFields) : Shape0(outputs[PredFields[k]]) < i
    THEN [self |-> self, ret |-> Raise("IndexError", {})]
    ELSE [self |-> self,
          ret |-> Ok(Append(result, PredictionRecord(outputs, i)))]

format_targets_iter(self, result, targets, i) ==
    LET masks == IF "panoptic_masks" \in DOMAIN targets
                 THEN targets["panoptic_masks"] ELSE targets["labels"]
        tooShort(k) == k \in DOMAIN targets /\ Shape0(targets[k]) < i
    IN  IF tooShort("bounding_boxes") \/ tooShort("class_labels")
        THEN [self |-> self, ret |-> Raise("IndexError", {})]
        ELSE [self |-> self,
              ret |-> Ok(Append(result, TargetRecord(targets, masks, i)))]

(***************************************************************************)
(* Model names are sequences of characters; str.lower and the substring    *)
(* test `in` work on them character by character.                          *)
(***************************************************************************)
UpperLetters == <<"A", "B", "C", "D", "E", "F", "G", "H", "I", "J", "K", "L",
                  "M", "N", "O", "P", "Q", "R", "S", "T", "U", "V", "W", "X",
                  "Y", "Z">>
LowerLetters == <<"a", "b", "c", "d", "e", "f", "g", "h", "i", "j", "k", "l",
                  "m", "n", "o", "p", "q", "r", "s", "t", "u", "v", "w", "x",
                  "y", "z">>

LowerChar(c) ==
    IF \E j \in 1..Len(UpperLetters) : UpperLetters[j] = c
    THEN LowerLetters[CHOOSE j \in 1..Len(UpperLetters) : UpperLetters[j] = c]
    ELSE c
UpperChar(c) ==
    IF \E j \in 1..Len(LowerLetters) : LowerLetters[j] = c
    THEN UpperLetters[CHOOSE j \in 1..Len(LowerLetters) : LowerLetters[j] = c]
    ELSE c

\* str.lower()
StrLower(s) == [i \in 1..Len(s) |-> LowerChar(s[i])]

\* pattern in s
StrContains(pattern, s) ==
    \E k \in 0..(Len(s) - Len(pattern)) :
        SubSeq(s, k + 1, k + Len(pattern)) = pattern

Mask2FormerPattern == <<"m", "a", "s", "k", "2", "f", "o", "r", "m", "e", "r">>

\* Mask2FormerInputAdapter.__init__: AutoImageProcessor.from_pretrained
\* reads the recipe from the model registry and may fail (fetch_ok = FALSE)
Mask2FormerInputAdapter(model_name, image_size, fetch_ok) ==
    IF ~fetch_ok
    THEN Raise("OSError", {})
    ELSE Ok([kind |-> "Mask2FormerInputAdapter",
             image_size |-> image_size,
             processor |-> [model_name |-> model_name,
                            height |-> image_size, width |-> image_size]])

\* NoOpInputAdapter()
NoOpInputAdapter == Ok([kind |-> "NoOpInputAdapter"])

\* PIL images and the tensors made from them, by mode and shape
Channels(mode) == IF mode = "RGB" THEN 3 ELSE 1

\* torchvision.transforms.functional.to_tensor: channel-first float tensor
\* of the image's own height and width
to_tensor(image) ==
    [shape |-> <<Channels(image.mode), image.height, image.width>>,
     dtype |-> "float32"]

\* self.processor(image, return_tensors="pt", ...): a batch of one image
\* resized and padded to the configured square
ProcessorCall(processor, image) ==
    [pixel_values |->
        [shape |-> <<1, Channels(image.mode), processor.height,
                     processor.width>>,
         dtype |-> "float32"]]

\* tensor.squeeze(0)
Squeeze0(t) ==
    IF t.shape[1] = 1
    THEN [t EXCEPT !.shape = SubSeq(t.shape, 2, Len(t.shape))]
    ELSE t

\* NoOpInputAdapter.__call__ keeping only the mask fields of the annotation
NoOpInputAdapter_call_masks_only(image, target) ==
    Ok(<<to_tensor(image),
         [k \in DOMAIN target \cap {"panoptic_masks", "labels"}
             |-> target[k]]>>)

\* NoOpInputAdapter.__call__
NoOpInputAdapter_call(image, target) == Ok(<<to_tensor(image), target>>)

\* Mask2FormerInputAdapter.__call__
Mask2FormerInputAdapter_call(self, image, target) ==
    LET processed == ProcessorCall(self.processor, image)
    IN  Ok(<<Squeeze0(processed.pixel_values), target>>)

\* adapter(image, target), dispatched on the adapter's class
InputAdapterCall(adapter, image, target) ==
    IF adapter.kind = "NoOpInputAdapter"
    THEN NoOpInputAdapter_call(image, target)
    ELSE Mask2FormerInputAdapter_call(adapter, image, target)

\* the number of recipe lookups (AutoImageProcessor.from_pretrained calls)
\* get_input_adapter makes: one, in the constructor of the family adapter
registry_lookups(model_name) ==
    IF StrContains(Mask2FormerPattern, StrLower(model_name)) THEN 1 ELSE 0

\* get_input_adapter comparing the name as given, without lower()
get_input_adapter_case_sensitive(model_name, image_size, fetch_ok) ==
    IF StrContains(Mask2FormerPattern, model_name)
    THEN Mask2FormerInputAdapter(model_name, image_size, fetch_ok)
    ELSE NoOpInputAdapter

\* get_input_adapter catching the constructor's failure and reporting it
\* as a RuntimeError of its own
get_input_adapter_wrapping(model_name, image_size, fetch_ok) ==
    LET model_name_lower == StrLower(model_name)
        made == Mask2FormerInputAdapter(model_name, image_size, fetch_ok)
    IN  IF StrContains(Mask2FormerPattern, model_name_lower)
        THEN IF made.ok THEN made ELSE Raise("RuntimeError", {})
        ELSE NoOpInputAdapter

\* get_input_adapter returning the NoOpInputAdapter when the family
\* adapter cannot be constructed
get_input_adapter_fallback(model_name, image_size, fetch_ok) ==
    LET model_name_lower == StrLower(model_name)
        made == Mask2FormerInputAdapter(model_name, image_size, fetch_ok)
    IN  IF StrContains(Mask2FormerPattern, model_name_lower) /\ made.ok
        THEN made
        ELSE NoOpInputAdapter

\* get_input_adapter matching on the suffix "former" of the family pattern
get_input_adapter_loose(model_name, image_size, fetch_ok) ==
    LET model_name_lower == StrLower(model_name)
    IN  IF StrContains(SubSeq(Mask2FormerPattern, 6, 11), model_name_lower)
        THEN Mask2FormerInputAdapter(model_name, image_size, fetch_ok)
        ELSE NoOpInputAdapter

\* get_input_adapter
get_input_adapter(model_name, image_size, fetch_ok) ==
    LET model_name_lower == StrLower(model_name)
    IN  IF StrContains(Mask2FormerPattern, model_name_lower)
        THEN Mask2FormerInputAdapter(model_name, image_size, fetch_ok)
        ELSE NoOpInputAdapter

\* get_output_adapter
get_output_adapter(model_name) ==
    Ok([kind |-> "PanopticSegmentationOutputAdapter"])

(***************************************************************************)
(* The output adapter of the semantic segmentation task, which the model   *)
(* gets from get_output_adapter of its own task package.  Its operations   *)
(* follow the adapter protocol: strict re-keying of the mask field with    *)
(* the task's key preferred over labels, loss falling back to None, one    *)
(* record per slice along the batch axis under the key semantic_mask that  *)
(* the steps of the model read.  A mask and a row of logits carry the      *)
(* sample they belong to, so that records can be traced to samples.        *)
(***************************************************************************)
SemMaskKeys == <<"semantic_masks", "labels">>

sem_adapt_targets(targets) ==
    IF SemMaskKeys[1] \in DOMAIN targets
    THEN Ok([k \in {"labels"} |-> targets[SemMaskKeys[1]]])
    ELSE IF SemMaskKeys[2] \in DOMAIN targets
         THEN Ok([k \in {"labels"} |-> targets[SemMaskKeys[2]]])
         ELSE Ok(EmptyDict)

sem_adapt_output(outputs) ==
    LET attr_loss == GetAttr(outputs, "loss", None)
        loss == IF attr_loss = None /\ outputs.isdict
                THEN DictGet(outputs.keys, "loss", None)
                ELSE attr_loss
    IN  IF ~HasAttr(outputs, "logits")
        THEN Raise("AttributeError", {"logits"})
        ELSE Ok([loss |-> loss,
                 logits |-> outputs.attrs["logits"],
                 loss_dict |-> GetAttr(outputs, "loss_dict", EmptyDict)])

sem_format_predictions(outputs) ==
    IF "logits" \notin DOMAIN outputs
    THEN Raise("KeyError", {"logits"})
    ELSE Ok([i \in 1..Shape0(outputs["logits"]) |->
                [semantic_mask |->
                    [sample |-> outputs["logits"][i].sample,
                     cls |-> ArgMax(outputs["logits"][i].scores)]]])

sem_format_targets(targets) ==
    IF \A j \in 1..Len(SemMaskKeys) : SemMaskKeys[j] \notin DOMAIN targets
    THEN Raise("ValueError", {SemMaskKeys[1], SemMaskKeys[2]})
    ELSE LET masks == IF SemMaskKeys[1] \in DOMAIN targets
                      THEN targets[SemMaskKeys[1]]
                      ELSE targets[SemMaskKeys[2]]
         IN  Ok([i \in 1..Shape0(masks) |-> [semantic_mask |-> masks[i]]])

(***************************************************************************)
(* The steps of SemanticSegmentationModel.                                 *)
(***************************************************************************)
\* an optional argument
Some(v) == [given |-> TRUE, val |-> v]
Nothing == [given |-> FALSE]

\* self.model(pixel_values=..., labels=...): the segmentation model gives
\* one row of class scores per image, and a loss when it is given labels;
\* its output is a dict whose keys are attributes as well
ModelCall(pixel_values, labels) ==
    LET logits == [i \in 1..Len(pixel_values.data) |->
                     [sample |-> pixel_values.data[i],
                      scores |-> [c \in 1..NumClasses |->
                                    IF c = (pixel_values.data[i] % NumClasses)
                                           + 1
                                    THEN MaxScore ELSE 0]]]
        fm == (IF labels.given THEN [k \in {"loss"} |-> "loss_a"]
               ELSE EmptyDict)
              @@ [k \in {"logits"} |-> logits]
    IN  [isdict |-> TRUE, attrs |-> fm, keys |-> fm]

\* forward accepting every input with a batch axis and more
ValidInputAtLeast3D(pixel_values) == pixel_values.ndim >= 3

\* forward: pixel_values.dim() != 4 is an error
ValidInput(pixel_values) == pixel_values.ndim = 4

\* forward after the check of the input: adapt the targets if given, even
\* when given, straight to the model
AfterValidateNoTargets(labels) == "model"

\* forward after the check of the input: adapt the targets if given
AfterValidate(labels) == IF labels.given THEN "adapt_targets" ELSE "model"

\* zip pairing the predictions with the targets in reverse order
ZipReversed(predictions, targets) ==
    [i \in 1..Min(Len(predictions), Len(targets)) |->
        <<predictions[i], targets[Len(targets) + 1 - i]>>]

\* zip(predictions, targets)
Zip(predictions, targets) ==
    [i \in 1..Min(Len(predictions), Len(targets)) |->
        <<predictions[i], targets[i]>>]

\* the update loop of a step: every metric of the stage is updated with
\* the pair of masks
MetricUpdates(stage, predictions, targets) ==
    LET pairs == Zip(predictions, targets)
    IN  [i \in 1..Len(pairs) |->
            [stage |-> stage,
             pred_mask |-> pairs[i][1]["semantic_mask"],
             target_mask |-> pairs[i][2]["semantic_mask"]]]

(***************************************************************************)
(* The metrics of the model: five per stage, named by stage and kind       *)
(* (train_dice is <<"train", "dice">>).  A metric accumulates statistics   *)
(* of the pairs it is updated with: how many, and how many where           *)
(* prediction and target have the same class.                              *)
(***************************************************************************)
Stages == {"train", "val", "test"}
MetricKinds == {"dice", "iou", "accuracy", "precision", "recall"}

\* a metric as _init_metrics makes it and as reset() leaves it
FreshMetric == [updates |-> 0, correct |-> 0]

\* metric.update(pred_mask, target_mask)
MetricUpdate(metric, pred_mask, target_mask) ==
    [updates |-> metric.updates + 1,
     correct |-> metric.correct
                 + (IF pred_mask.cls = target_mask.cls THEN 1 ELSE 0)]

\* the metric after the updates of a step, in order
RECURSIVE MetricAfter(_, _)
MetricAfter(metric, updates) ==
    IF updates = <<>> THEN metric
    ELSE MetricAfter(MetricUpdate(metric, updates[1].pred_mask,
                                  updates[1].target_mask),
                     Tail(updates))

\* test_step updating self.val_recall where it is to update
\* self.test_recall
StepMetricsSharedRecall(stage) ==
    CASE stage = "train" ->
            {<<"train", "dice">>, <<"train", "iou">>, <<"train", "accuracy">>,
             <<"train", "precision">>, <<"train", "recall">>}
      [] stage = "val" ->
            {<<"val", "dice">>, <<"val", "iou">>, <<"val", "accuracy">>,
             <<"val", "precision">>, <<"val", "recall">>}
      [] stage = "test" ->
            {<<"test", "dice">>, <<"test", "iou">>, <<"test", "accuracy">>,
             <<"test", "precision">>, <<"val", "recall">>}

\* the metrics that training_step, validation_step and test_step update
\* with each pair of prediction and target
StepMetrics(stage) ==
    CASE stage = "train" ->
            {<<"train", "dice">>, <<"train", "iou">>, <<"train", "accuracy">>,
             <<"train", "precision">>, <<"train", "recall">>}
      [] stage = "val" ->
            {<<"val", "dice">>, <<"val", "iou">>, <<"val", "accuracy">>,
             <<"val", "precision">>, <<"val", "recall">>}
      [] stage = "test" ->
            {<<"test", "dice">>, <<"test", "iou">>, <<"test", "accuracy">>,
             <<"test", "precision">>, <<"test", "recall">>}

\* the metrics that on_train_epoch_end, on_validation_epoch_end and
\* on_test_epoch_end compute and log, and then reset
EpochEndMetrics(stage) ==
    CASE stage = "train" ->
            {<<"train", "dice">>, <<"train", "iou">>, <<"train", "accuracy">>,
             <<"train", "precision">>, <<"train", "recall">>}
      [] stage = "val" ->
            {<<"val", "dice">>, <<"val", "iou">>, <<"val", "accuracy">>,
             <<"val", "precision">>, <<"val", "recall">>}
      [] stage = "test" ->
            {<<"test", "dice">>, <<"test", "iou">>, <<"test", "accuracy">>,
             <<"test", "precision">>, <<"test", "recall">>}

(***************************************************************************)
(* Checkpoints of the model.  A checkpoint is a dict; the config of the    *)
(* model is a record of the fields that the checkpoint hooks read and      *)
(* write and of num_classes, which they leave alone.  An Optional field    *)
(* is Nothing for None.                                                    *)
(***************************************************************************)
\* on_load_checkpoint leaving scheduler_params as they are
on_load_checkpoint_without_scheduler_params(config, checkpoint) ==
    LET named == IF "class_names" \in DOMAIN checkpoint
                 THEN [config EXCEPT
                          !.class_names = checkpoint["class_names"]]
                 ELSE config
    IN  IF "optimizer_params" \in DOMAIN checkpoint
        THEN LET params == checkpoint["optimizer_params"]
             IN  [named EXCEPT
                    !.learning_rate = params["learning_rate"],
                    !.weight_decay = params["weight_decay"],
                    !.scheduler = params["scheduler"]]
        ELSE named

\* on_load_checkpoint: the config after the hook has read the checkpoint
on_load_checkpoint(config, checkpoint) ==
    LET named == IF "class_names" \in DOMAIN checkpoint
                 THEN [config EXCEPT
                          !.class_names = checkpoint["class_names"]]
                 ELSE config
    IN  IF "optimizer_params" \in DOMAIN checkpoint
        THEN LET params == checkpoint["optimizer_params"]
             IN  [named EXCEPT
                    !.learning_rate = params["learning_rate"],
                    !.weight_decay = params["weight_decay"],
                    !.scheduler = params["scheduler"],
                    !.scheduler_params = params["scheduler_params"]]
        ELSE named

\* on_save_checkpoint: the checkpoint after the hook has written to it
on_save_checkpoint(config, checkpoint) ==
    [k \in {"optimizer_params"} |->
        [learning_rate |-> config.learning_rate,
         weight_decay |-> config.weight_decay,
         scheduler |-> config.scheduler,
         scheduler_params |-> config.scheduler_params]]
    @@ [k \in {"class_names"} |-> config.class_names]
    @@ checkpoint

(***************************************************************************)
(* UnifiedTrainer (src/src/training/trainer.py).  self is a record of the  *)
(* attributes model, data_module and trainer and of config.distributed;    *)
(* a Lightning trainer is the number of its creation, NoTrainer when       *)
(* self.trainer is None, and made counts the trainers created.  A call     *)
(* gives the attributes after it, the runs it started on the outside       *)
(* (events) and what it returned or raised.                                *)
(***************************************************************************)
NoTrainer == 0

\* UnifiedTrainer.__init__
UnifiedTrainer(distributed, model, data_module) ==
    [model |-> model, data_module |-> data_module, trainer |-> NoTrainer,
     distributed |-> distributed, made |-> 0]

\* _init_trainer: self.trainer = pl.Trainer(...), always a new one
_init_trainer(self) ==
    [self EXCEPT !.trainer = self.made + 1, !.made = self.made + 1]

Event(kind, trainer) == [kind |-> kind, trainer |-> trainer]

\* train creating the Lightning trainer before it checks the model and the
\* data module
train_init_first(self, ray_installed) ==
    LET made == _init_trainer(self)
    IN  IF self.model = None \/ self.data_module = None
        THEN [self |-> made, events |-> <<>>,
              ret |-> Raise("ValueError", {"model", "data_module"})]
        ELSE IF made.distributed
        THEN IF ~ray_installed
             THEN [self |-> made, events |-> <<>>,
                   ret |-> Raise("ImportError", {})]
             ELSE [self |-> made,
                   events |-> <<Event("setup_ray_cluster", NoTrainer),
                                Event("ray_fit", made.trainer)>>,
                   ret |-> Ok("result")]
        ELSE [self |-> made,
              events |-> <<Event("fit", made.trainer)>>,
              ret |-> Ok("result")]

\* UnifiedTrainer.train; ray_installed: whether ray.util.spark can be
\* imported
train(self, ray_installed) ==
    IF self.model = None \/ self.data_module = None
    THEN [self |-> self, events |-> <<>>,
          ret |-> Raise("ValueError", {"model", "data_module"})]
    ELSE LET made == _init_trainer(self)
         IN  IF made.distributed
             THEN IF ~ray_installed
                  THEN [self |-> made, events |-> <<>>,
                        ret |-> Raise("ImportError", {})]
                  ELSE [self |-> made,
                        events |-> <<Event("setup_ray_cluster", NoTrainer),
                                     Event("ray_fit", made.trainer)>>,
                        ret |-> Ok("result")]
             ELSE [self |-> made,
                   events |-> <<Event("fit", made.trainer)>>,
                   ret |-> Ok("result")]

\* test creating a new Lightning trainer on every call
test_always_init(self, model, data_module) ==
    LET given == [self EXCEPT
                    !.model = IF model # None THEN model ELSE @,
                    !.data_module = IF data_module # None THEN data_module
                                    ELSE @]
    IN  IF given.model = None \/ given.data_module = None
        THEN [self |-> given, events |-> <<>>,
              ret |-> Raise("ValueError", {"model", "data_module"})]
        ELSE LET ready == _init_trainer(given)
             IN  [self |-> ready,
                  events |-> <<Event("test", ready.trainer)>>,
                  ret |-> Ok("results")]

\* UnifiedTrainer.test
test(self, model, data_module) ==
    LET given == [self EXCEPT
                    !.model = IF model # None THEN model ELSE @,
                    !.data_module = IF data_module # None THEN data_module
                                    ELSE @]
    IN  IF given.model = None \/ given.data_module = None
        THEN [self |-> given, events |-> <<>>,
              ret |-> Raise("ValueError", {"model", "data_module"})]
        ELSE LET ready == IF given.trainer = NoTrainer THEN _init_trainer(given)
                          ELSE given
             IN  [self |-> ready,
                  events |-> <<Event("test", ready.trainer)>>,
                  ret |-> Ok("results")]

(***************************************************************************)
(* Inputs of the adapter calls.                                            *)
(***************************************************************************)
\* a dict with the single key k when present, the empty dict otherwise
Entry(present, k, v) == IF present THEN k :> v ELSE EmptyDict

\* a batched field: absent (n = -1) or a tensor with n slices
TensorEntry(k, n, o) == Entry(n >= 0, k, Tensor(IF n >= 0 THEN n ELSE 0, o))
LenOpts == -1..MaxBatch

LogitOpts == {[has |-> FALSE, v |-> <<>>]}
             \cup {[has |-> TRUE, v |-> LogitTensor(n, row)] :
                      n \in 0..MaxBatch,
                      row \in [1..NumClasses -> 0..MaxScore]}

\* the fields a forward pass may produce; the slices of the three prediction
\* tensors are told apart by the tens digit
FieldMaps ==
    {Entry(l # "absent", "loss", l)
     @@ Entry(lg.has, "logits", lg.v)
     @@ TensorEntry("pred_boxes", nb, 0)
     @@ TensorEntry("pred_masks", nm, 10)
     @@ TensorEntry("pred_panoptic_seg", np, 20)
     @@ Entry(ld, "loss_dict", CHOOSE d \in LossDicts : TRUE) :
        l \in {"absent", None} \cup LossValues, lg \in LogitOpts,
        nb \in LenOpts, nm \in LenOpts,
        np \in LenOpts, ld \in BOOLEAN}

\* "object": fields are attributes; "dict": a plain dict, fields are keys;
\* "model_output": a dict whose keys are attributes as well
MakeRaw(shape, fm) ==
    [isdict |-> shape # "object",
     attrs |-> IF shape = "dict" THEN EmptyDict ELSE fm,
     keys |-> IF shape = "object" THEN EmptyDict ELSE fm]
RawOutputs == {MakeRaw(sh, fm) : sh \in {"object", "dict", "model_output"},
                                 fm \in FieldMaps}

\* outputs dicts handed to format_predictions directly
OutputDicts == {fm \in FieldMaps : {"loss", "loss_dict"} \subseteq DOMAIN fm
                                   /\ fm["loss"] = None}

TargetDicts ==
    UNION {[D -> {Tensor(n, o) : n \in 0..MaxBatch, o \in 0..MaxOffset}] :
              D \in SUBSET {"panoptic_masks", "labels", "bounding_boxes",
                            "class_labels"}}

\* s with the characters at the positions a..b in upper case
Cased(s, a, b) ==
    [i \in 1..Len(s) |-> IF i \in a..b THEN UpperChar(s[i]) ELSE s[i]]
Casings(s) == {Cased(s, a, b) : a \in 1..(Len(s) + 1), b \in 0..Len(s)}

Prefixes == {<<>>, <<"f", "b", "/">>}
Suffixes == {<<>>, <<"-", "s">>}

\* names of the Mask2Former family
FamilyNames ==
    {p \o c \o x : p \in Prefixes, c \in Casings(Mask2FormerPattern),
                   x \in Suffixes}

\* names of other architectures and near misses of the family pattern
UnknownCores ==
    {<<>>,
     <<"d", "e", "t", "r">>,
     <<"t", "o", "t", "a", "l", "l", "y", "-", "u", "n", "k", "n", "o", "w",
       "n", "-", "a", "r", "c", "h">>,
     <<"m", "a", "s", "k", "f", "o", "r", "m", "e", "r">>,
     <<"m", "a", "s", "k", "2", "f", "o", "r", "m", "e">>,
     <<"a", "s", "k", "2", "f", "o", "r", "m", "e", "r">>,
     <<"m", "a", "s", "k", "2", "-", "f", "o", "r", "m", "e", "r">>,
     <<"f", "o", "r", "m", "e", "r", "2", "m", "a", "s", "k">>}
UnknownNames ==
    {p \o c \o x : p \in Prefixes,
                   c \in UNION {Casings(u) : u \in UnknownCores},
                   x \in Suffixes}

ModelNames == FamilyNames \cup UnknownNames
ImageSizes == {256, 512}

Images == {[mode |-> m, height |-> h, width |-> w] :
              m \in {"RGB", "L"}, h \in {480}, w \in {480, 640}}

\* the inputs of a caller that makes one call after another on one adapter:
\* single-sample batches
HistFieldMaps ==
    {Entry(has_loss, "loss", CHOOSE l \in LossValues : TRUE)
     @@ Entry(has_logits, "logits",
              LogitTensor(1, [c \in 1..NumClasses |-> 0]))
     @@ TensorEntry("pred_boxes", nb, 0)
     @@ TensorEntry("pred_masks", 1, 10)
     @@ TensorEntry("pred_panoptic_seg", 1, 20)
     @@ Entry(TRUE, "loss_dict", CHOOSE d \in LossDicts : TRUE) :
        has_loss \in BOOLEAN, has_logits \in BOOLEAN, nb \in {-1, 1}}
HistRawOutputs == {MakeRaw(sh, fm) : sh \in {"object", "dict"},
                                    fm \in HistFieldMaps}
HistOutputDicts ==
    {fm \in HistFieldMaps : "loss" \in DOMAIN fm /\ "logits" \in DOMAIN fm}
HistTargetDicts ==
    {[k \in D |-> Tensor(1, 0)] :
        D \in SUBSET {"panoptic_masks", "labels", "bounding_boxes"}}
\* the batches of the concurrent workers
WorkerOutputDicts ==
    {Entry(TRUE, "loss", None)
     @@ Entry(TRUE, "logits", LogitTensor(n, [c \in 1..NumClasses |-> 0]))
     @@ TensorEntry("pred_boxes", nb, 0)
     @@ TensorEntry("pred_masks", n, 10)
     @@ TensorEntry("pred_panoptic_seg", n, 20)
     @@ Entry(TRUE, "loss_dict", CHOOSE d \in LossDicts : TRUE) :
        n \in 0..MaxBatch, nb \in LenOpts}
WorkerTargetDicts ==
    {TensorEntry("panoptic_masks", nm, 0)
     @@ TensorEntry("bounding_boxes", nb, 0) :
        nm \in LenOpts, nb \in LenOpts}

\* the batches of the data module: n consecutive samples of the dataset,
\* the images stacked (4 dimensions) or a single unbatched image (3), the
\* masks under the task's key or under labels
StepBatches ==
    {[pixel_values |-> [ndim |-> d, data |-> [i \in 1..n |-> first + i]],
      labels |-> [k \in {key} |->
                    [i \in 1..n |-> [sample |-> first + i,
                                     cls |-> (first + i) % NumClasses]]]] :
        n \in 1..MaxBatch, first \in 0..MaxOffset, d \in {3, 4},
        key \in {SemMaskKeys[1], SemMaskKeys[2]}}

\* the models and data modules a UnifiedTrainer is given
Models == {None, "model_a", "model_b"}
DataModules == {None, "data_a", "data_b"}

\* configs of a model: the defaults of the dataclass and two others
DefaultConfig ==
    [num_classes |-> 2, learning_rate |-> "1e-4", weight_decay |-> "0.01",
     scheduler |-> "cosine", scheduler_params |-> Nothing,
     class_names |-> Nothing]

Configs ==
    {DefaultConfig,
     [num_classes |-> 2, learning_rate |-> "1e-3", weight_decay |-> "0.05",
      scheduler |-> "step", scheduler_params |-> Some([step_size |-> 10]),
      class_names |-> Some(<<"road", "car">>)],
     [num_classes |-> 3, learning_rate |-> "5e-4", weight_decay |-> "0.1",
      scheduler |-> "cosine", scheduler_params |-> Some([T_max |-> 50]),
      class_names |-> Some(<<"sky", "tree", "road">>)]}

\* the models that save and load checkpoints
ModelIds == {1, 2}

HistNames == {Mask2FormerPattern,
              Cased(Mask2FormerPattern, 1, 4),
              <<"d", "e", "t", "r">>}

(***************************************************************************)
(* The state machine: a caller makes one adapter call at a time.  pc is    *)
(* the caller's position, op the operation called, arg its argument and    *)
(* ret what it returned or raised.  chained holds when arg is the value    *)
(* the preceding adapt_output call returned, and raw is then the raw       *)
(* output that call was given.  registry is the model registry as the     *)
(* call met it: whether a recipe lookup succeeds, and how many lookups     *)
(* the call made.                                                          *)
(***************************************************************************)
VARIABLES pc, op, arg, ret, chained, raw, registry

callVars == <<pc, op, arg, ret, chained, raw, registry>>

(***************************************************************************)
(* A caller that makes one call after another on one output adapter and    *)
(* on the two selectors.  h_op, h_given and h_ret are the latest call, its *)
(* input as given and its outcome; h_held is the input object and h_self   *)
(* the adapter's attributes after the call.  h_memo is an earlier call     *)
(* the caller remembers and h_since the number of calls made since.        *)
(***************************************************************************)
VARIABLES h_op, h_given, h_held, h_ret, h_self, h_memo, h_since

histVars == <<h_op, h_given, h_held, h_ret, h_self, h_memo, h_since>>

(***************************************************************************)
(* Workers calling one shared output adapter and one shared                *)
(* Mask2FormerInputAdapter concurrently, a statement at a time.  w_shared  *)
(* holds the attributes of the two shared instances.  Per worker: w_pc is  *)
(* its position, w_call the call it is making, w_i the next loop           *)
(* iteration, w_result its local result list, w_ret the outcome of its     *)
(* call and w_overlap whether another worker took a step during the call.  *)
(***************************************************************************)
VARIABLES w_shared, w_pc, w_call, w_i, w_result, w_ret, w_overlap

workVars == <<w_shared, w_pc, w_call, w_i, w_result, w_ret, w_overlap>>

(***************************************************************************)
(* A step of the model on a batch.  step_pc is the position in the step,   *)
(* step_stage and step_batch the step and its batch, step_calls the        *)
(* adapter operations invoked so far, step_labels and step_outputs the     *)
(* locals of forward and of the step, step_predictions and step_targets    *)
(* the formatted sequences, step_updates the metric updates made and       *)
(* step_ret what the step returned or raised.                              *)
(***************************************************************************)
VARIABLES step_pc, step_stage, step_batch, step_calls, step_labels,
          step_outputs, step_predictions, step_targets, step_updates,
          step_ret

\* step_model_calls counts the calls of the underlying model in the step.
\* step_metrics holds the metrics of the model.  step_expected records,
\* for each stage, what a metric accumulates from the pairs that the steps
\* of the stage have handled since the stage's latest epoch end, and
\* step_logged what the epoch end that has just run logged.
VARIABLES step_model_calls, step_metrics, step_expected, step_logged

stepVars == <<step_pc, step_stage, step_batch, step_calls, step_labels,
              step_outputs, step_predictions, step_targets, step_updates,
              step_ret, step_model_calls, step_metrics, step_expected,
              step_logged>>

(***************************************************************************)
(* A UnifiedTrainer and the calls made on it.  t_self holds its            *)
(* attributes, t_call the latest call with its arguments and the           *)
(* attributes before it, t_events the runs that call started and t_ret     *)
(* what it returned or raised.                                             *)
(***************************************************************************)
VARIABLES t_self, t_call, t_events, t_ret

trainerVars == <<t_self, t_call, t_events, t_ret>>

\* Saving and loading checkpoints: ck_config is the config of each model,
\* ck_checkpoint the checkpoint written latest, ck_saved the config that
\* the saving model had when it was written, ck_call the latest call.
VARIABLES ck_config, ck_checkpoint, ck_saved, ck_call

checkpointVars == <<ck_config, ck_checkpoint, ck_saved, ck_call>>

vars == <<callVars, histVars, workVars, stepVars, trainerVars,
          checkpointVars>>

CallInit ==
    /\ pc = "idle"
    /\ op = "none"
    /\ arg = <<>>
    /\ ret = <<>>
    /\ chained = FALSE
    /\ raw = <<>>
    /\ registry = [ok |-> TRUE, lookups |-> 0]

HistInit ==
    /\ h_op = "none"
    /\ h_given = <<>>
    /\ h_held = <<>>
    /\ h_ret = <<>>
    /\ h_self = EmptyDict
    /\ h_memo = [op |-> "none", given |-> <<>>, ret |-> <<>>]
    /\ h_since = 0

Workers == {"w1", "w2"}

\* the adapters are constructed before the workers start
SharedAdapters ==
    [output_adapter |-> EmptyDict,
     input_adapter |-> Mask2FormerInputAdapter(Mask2FormerPattern, 512,
                                               TRUE).val]

WorkInit ==
    /\ w_shared = SharedAdapters
    /\ w_pc = [w \in Workers |-> "idle"]
    /\ w_call = [w \in Workers |-> [op |-> "none"]]
    /\ w_i = [w \in Workers |-> 1]
    /\ w_result = [w \in Workers |-> <<>>]
    /\ w_ret = [w \in Workers |-> <<>>]
    /\ w_overlap = [w \in Workers |-> FALSE]

StepInit ==
    /\ step_pc = "idle"
    /\ step_stage = "none"
    /\ step_batch = <<>>
    /\ step_calls = <<>>
    /\ step_labels = Nothing
    /\ step_outputs = <<>>
    /\ step_predictions = <<>>
    /\ step_targets = <<>>
    /\ step_updates = <<>>
    /\ step_ret = <<>>
    /\ step_model_calls = 0
    /\ step_metrics = [name \in Stages \X MetricKinds |-> FreshMetric]
    /\ step_expected = [stage \in Stages |-> FreshMetric]
    /\ step_logged = [stage |-> "none"]

TrainerInit ==
    /\ t_self = UnifiedTrainer(FALSE, None, None)
    /\ t_call = [op |-> "__init__"]
    /\ t_events = <<>>
    /\ t_ret = Ok(None)

CheckpointInit ==
    /\ ck_config = [m \in ModelIds |-> DefaultConfig]
    /\ ck_checkpoint = [k \in {"state_dict"} |-> "weights"]
    /\ ck_saved = Nothing
    /\ ck_call = [op |-> "none"]

Init ==
    /\ CallInit /\ HistInit /\ WorkInit /\ StepInit /\ TrainerInit
    /\ CheckpointInit

\* a step of one of the processes leaves the other processes alone
CallStep ==
    UNCHANGED <<histVars, workVars, stepVars, trainerVars, checkpointVars>>
HistStep ==
    UNCHANGED <<callVars, workVars, stepVars, trainerVars, checkpointVars>>
WorkStep ==
    UNCHANGED <<callVars, histVars, stepVars, trainerVars, checkpointVars>>
ModelStep ==
    UNCHANGED <<callVars, histVars, workVars, trainerVars, checkpointVars>>
TrainerStep ==
    UNCHANGED <<callVars, histVars, workVars, stepVars, checkpointVars>>
CheckpointStep ==
    UNCHANGED <<callVars, histVars, workVars, stepVars, trainerVars>>

Returned(o, a, r) ==
    /\ pc' = "returned"
    /\ op' = o
    /\ arg' = a
    /\ ret' = r

AdaptOutput ==
    /\ pc = "idle"
    /\ \E outputs \in RawOutputs :
          Returned("adapt_output", outputs, adapt_output(outputs))
    /\ UNCHANGED <<chained, raw, registry>>
    /\ CallStep

AdaptTargets ==
    /\ pc = "idle"
    /\ \E targets \in TargetDicts :
          Returned("adapt_targets", targets, adapt_targets(targets))
    /\ UNCHANGED <<chained, raw, registry>>
    /\ CallStep

FormatPredictions ==
    /\ pc = "idle"
    /\ \E outputs \in OutputDicts :
          Returned("format_predictions", outputs, format_predictions(outputs))
    /\ UNCHANGED <<chained, raw, registry>>
    /\ CallStep

\* format_predictions(adapt_output(raw)), as in the model's step
FormatAdapted ==
    /\ pc = "returned"
    /\ op = "adapt_output"
    /\ ret.ok
    /\ Returned("format_predictions", ret.val, format_predictions(ret.val))
    /\ chained' = TRUE
    /\ raw' = arg
    /\ UNCHANGED registry
    /\ CallStep

FormatTargets ==
    /\ pc = "idle"
    /\ \E targets \in TargetDicts :
          Returned("format_targets", targets, format_targets(targets))
    /\ UNCHANGED <<chained, raw, registry>>
    /\ CallStep

GetInputAdapter ==
    /\ pc = "idle"
    /\ \E model_name \in ModelNames, image_size \in ImageSizes,
          fetch_ok \in BOOLEAN :
          /\ Returned("get_input_adapter",
                   [model_name |-> model_name, image_size |-> image_size],
                   get_input_adapter(model_name, image_size, fetch_ok))
          /\ registry' = [ok |-> fetch_ok,
                          lookups |-> registry_lookups(model_name)]
    /\ UNCHANGED <<chained, raw>>
    /\ CallStep

GetOutputAdapter ==
    /\ pc = "idle"
    /\ \E model_name \in ModelNames :
          Returned("get_output_adapter", [model_name |-> model_name],
                   get_output_adapter(model_name))
    /\ UNCHANGED <<chained, raw, registry>>
    /\ CallStep

\* adapter(image, target) of a NoOpInputAdapter
CallNoOpInputAdapter ==
    /\ pc = "idle"
    /\ \E image \in Images, target \in TargetDicts :
          LET adapter == NoOpInputAdapter.val
          IN  Returned("input_adapter",
                       [adapter |-> adapter, image |-> image,
                        target |-> target],
                       InputAdapterCall(adapter, image, target))
    /\ UNCHANGED <<chained, raw, registry>>
    /\ CallStep

\* adapter(image, target) of a Mask2FormerInputAdapter
CallMask2FormerInputAdapter ==
    /\ pc = "idle"
    /\ \E image \in Images, target \in TargetDicts,
          image_size \in ImageSizes :
          LET adapter ==
                Mask2FormerInputAdapter(Mask2FormerPattern, image_size,
                                        TRUE).val
          IN  Returned("input_adapter",
                       [adapter |-> adapter, image |-> image,
                        target |-> target],
                       InputAdapterCall(adapter, image, target))
    /\ UNCHANGED <<chained, raw, registry>>
    /\ CallStep

\* the caller drops the call's values and is ready for the next call
Finish ==
    /\ pc = "returned"
    /\ pc' = "idle"
    /\ op' = "none"
    /\ arg' = <<>>
    /\ ret' = <<>>
    /\ chained' = FALSE
    /\ raw' = <<>>
    /\ registry' = [ok |-> TRUE, lookups |-> 0]
    /\ CallStep

Next ==
    \/ CallNoOpInputAdapter
    \/ CallMask2FormerInputAdapter
    \/ AdaptOutput
    \/ AdaptTargets
    \/ FormatPredictions
    \/ FormatAdapted
    \/ FormatTargets
    \/ GetInputAdapter
    \/ GetOutputAdapter
    \/ Finish

Spec == Init /\ [][Next]_vars

(***************************************************************************)
(* Calls one after another on one adapter instance.                        *)
(***************************************************************************)
\* the call (o, given, r) is made; it is remembered in place of the earlier
\* call, or the earlier call stays remembered
HistReturned(o, given, r) ==
    /\ h_op' = o
    /\ h_given' = given
    /\ h_ret' = r
    /\ \/ /\ h_memo' = [op |-> o, given |-> given, ret |-> r]
          /\ h_since' = 0
       \/ /\ h_memo.op # "none"
          /\ h_since < MaxSince
          /\ h_memo' = h_memo
          /\ h_since' = h_since + 1

HistAdaptOutput ==
    /\ \E outputs \in HistRawOutputs :
          LET call == adapt_output_call(h_self, outputs)
          IN  /\ HistReturned("adapt_output", outputs, call.ret)
              /\ h_held' = call.arg
              /\ h_self' = call.self
    /\ HistStep

HistAdaptTargets ==
    /\ \E targets \in HistTargetDicts :
          LET call == adapt_targets_call(h_self, targets)
          IN  /\ HistReturned("adapt_targets", targets, call.ret)
              /\ h_held' = call.arg
              /\ h_self' = call.self
    /\ HistStep

HistFormatPredictions ==
    /\ \E outputs \in HistOutputDicts :
          LET call == format_predictions_call(h_self, outputs)
          IN  /\ HistReturned("format_predictions", outputs, call.ret)
              /\ h_held' = call.arg
              /\ h_self' = call.self
    /\ HistStep

HistFormatTargets ==
    /\ \E targets \in HistTargetDicts :
          LET call == format_targets_call(h_self, targets)
          IN  /\ HistReturned("format_targets", targets, call.ret)
              /\ h_held' = call.arg
              /\ h_self' = call.self
    /\ HistStep

HistGetInputAdapter ==
    /\ \E model_name \in HistNames, image_size \in ImageSizes,
          fetch_ok \in BOOLEAN :
          LET given == [model_name |-> model_name, image_size |-> image_size]
          IN  /\ HistReturned("get_input_adapter", given,
                              get_input_adapter(model_name, image_size,
                                                fetch_ok))
              /\ h_held' = given
    /\ UNCHANGED h_self
    /\ HistStep

HistGetOutputAdapter ==
    /\ \E model_name \in HistNames :
          LET given == [model_name |-> model_name]
          IN  /\ HistReturned("get_output_adapter", given,
                              get_output_adapter(model_name))
              /\ h_held' = given
    /\ UNCHANGED h_self
    /\ HistStep

HistNext ==
    \/ HistAdaptOutput
    \/ HistAdaptTargets
    \/ HistFormatPredictions
    \/ HistFormatTargets
    \/ HistGetInputAdapter
    \/ HistGetOutputAdapter

SpecHistory == Init /\ [][HistNext]_vars

(***************************************************************************)
(* Concurrent workers on the shared adapters.                              *)
(***************************************************************************)
\* worker w takes a step: the calls in progress in the other workers have
\* overlapped with it
Overlapping(w, begins) ==
    w_overlap' =
        [v \in Workers |->
            IF v = w THEN (IF begins THEN FALSE ELSE w_overlap[w])
            ELSE w_overlap[v] \/ w_pc[v] \in {"loop", "processed"}]

\* w's call ends with the outcome r
WorkerDone(w, r) ==
    /\ w_pc' = [w_pc EXCEPT ![w] = "done"]
    /\ w_ret' = [w_ret EXCEPT ![w] = r]

\* format_predictions up to the loop: the four key reads and result = []
WorkerFormatPredictions(w) ==
    /\ w_pc[w] = "idle"
    /\ \E outputs \in WorkerOutputDicts :
          /\ w_call' = [w_call EXCEPT ![w] = [op |-> "format_predictions",
                                              arg |-> outputs]]
          /\ IF FirstMissingKey(outputs) # 0
             THEN WorkerDone(w, Raise("KeyError",
                                      {PredFields[FirstMissingKey(outputs)]}))
             ELSE /\ w_pc' = [w_pc EXCEPT ![w] = "loop"]
                  /\ UNCHANGED w_ret
    /\ w_i' = [w_i EXCEPT ![w] = 1]
    /\ w_result' = [w_result EXCEPT ![w] = <<>>]
    /\ Overlapping(w, TRUE)
    /\ UNCHANGED w_shared
    /\ WorkStep

\* format_targets up to the loop: the choice of the masks and result = []
WorkerFormatTargets(w) ==
    /\ w_pc[w] = "idle"
    /\ \E targets \in WorkerTargetDicts :
          /\ w_call' = [w_call EXCEPT ![w] = [op |-> "format_targets",
                                              arg |-> targets]]
          /\ IF DOMAIN targets \cap {"panoptic_masks", "labels"} = {}
             THEN WorkerDone(w, Raise("ValueError",
                                      {"panoptic_masks", "labels"}))
             ELSE /\ w_pc' = [w_pc EXCEPT ![w] = "loop"]
                  /\ UNCHANGED w_ret
    /\ w_i' = [w_i EXCEPT ![w] = 1]
    /\ w_result' = [w_result EXCEPT ![w] = <<>>]
    /\ Overlapping(w, TRUE)
    /\ UNCHANGED w_shared
    /\ WorkStep

\* range(logits.shape[0]) and range(masks.shape[0])
LoopLength(call) ==
    IF call.op = "format_predictions"
    THEN Shape0(call.arg["logits"])
    ELSE IF "panoptic_masks" \in DOMAIN call.arg
         THEN Shape0(call.arg["panoptic_masks"])
         ELSE Shape0(call.arg["labels"])

\* one iteration of the loop of the call w is making
WorkerIterate(w) ==
    /\ w_pc[w] = "loop"
    /\ w_i[w] <= LoopLength(w_call[w])
    /\ LET step == IF w_call[w].op = "format_predictions"
                   THEN format_predictions_iter(w_shared.output_adapter,
                                                w_result[w], w_call[w].arg,
                                                w_i[w])
                   ELSE format_targets_iter(w_shared.output_adapter,
                                            w_result[w], w_call[w].arg,
                                            w_i[w])
       IN  /\ w_shared' = [w_shared EXCEPT !.output_adapter = step.self]
           /\ IF step.ret.ok
              THEN /\ w_result' = [w_result EXCEPT ![w] = step.ret.val]
                   /\ w_i' = [w_i EXCEPT ![w] = @ + 1]
                   /\ UNCHANGED <<w_pc, w_ret>>
              ELSE /\ WorkerDone(w, step.ret)
                   /\ UNCHANGED <<w_result, w_i>>
    /\ Overlapping(w, FALSE)
    /\ UNCHANGED w_call
    /\ WorkStep

\* return result, after the last iteration
WorkerReturn(w) ==
    /\ w_pc[w] = "loop"
    /\ w_i[w] > LoopLength(w_call[w])
    /\ WorkerDone(w, Ok(w_result[w]))
    /\ Overlapping(w, FALSE)
    /\ UNCHANGED <<w_shared, w_call, w_i, w_result>>
    /\ WorkStep

\* adapt_targets has no loop
WorkerAdaptTargets(w) ==
    /\ w_pc[w] = "idle"
    /\ \E targets \in WorkerTargetDicts :
          LET call == adapt_targets_call(w_shared.output_adapter, targets)
          IN  /\ w_call' = [w_call EXCEPT ![w] = [op |-> "adapt_targets",
                                                  arg |-> targets]]
              /\ w_shared' = [w_shared EXCEPT !.output_adapter = call.self]
              /\ WorkerDone(w, call.ret)
    /\ Overlapping(w, TRUE)
    /\ UNCHANGED <<w_i, w_result>>
    /\ WorkStep

\* adapt_output has no loop
WorkerAdaptOutput(w) ==
    /\ w_pc[w] = "idle"
    /\ \E outputs \in HistRawOutputs :
          LET call == adapt_output_call(w_shared.output_adapter, outputs)
          IN  /\ w_call' = [w_call EXCEPT ![w] = [op |-> "adapt_output",
                                                  arg |-> outputs]]
              /\ w_shared' = [w_shared EXCEPT !.output_adapter = call.self]
              /\ WorkerDone(w, call.ret)
    /\ Overlapping(w, TRUE)
    /\ UNCHANGED <<w_i, w_result>>
    /\ WorkStep

\* Mask2FormerInputAdapter.__call__ up to processed = self.processor(...)
WorkerProcess(w) ==
    /\ w_pc[w] = "idle"
    /\ \E image \in {im \in Images : im.mode = "RGB"},
          target \in WorkerTargetDicts :
          /\ w_call' = [w_call EXCEPT ![w] =
                           [op |-> "input_adapter",
                            arg |-> [image |-> image, target |-> target]]]
          /\ w_result' =
                [w_result EXCEPT ![w] =
                    ProcessorCall(w_shared.input_adapter.processor, image)]
    /\ w_pc' = [w_pc EXCEPT ![w] = "processed"]
    /\ Overlapping(w, TRUE)
    /\ UNCHANGED <<w_shared, w_i, w_ret>>
    /\ WorkStep

\* return processed.pixel_values.squeeze(0), target
WorkerSqueeze(w) ==
    /\ w_pc[w] = "processed"
    /\ WorkerDone(w, Ok(<<Squeeze0(w_result[w].pixel_values),
                          w_call[w].arg.target>>))
    /\ Overlapping(w, FALSE)
    /\ UNCHANGED <<w_shared, w_call, w_i, w_result>>
    /\ WorkStep

\* the worker takes the outcome and is ready for its next batch
WorkerFinish(w) ==
    /\ w_pc[w] = "done"
    /\ w_pc' = [w_pc EXCEPT ![w] = "idle"]
    /\ w_call' = [w_call EXCEPT ![w] = [op |-> "none"]]
    /\ w_i' = [w_i EXCEPT ![w] = 1]
    /\ w_result' = [w_result EXCEPT ![w] = <<>>]
    /\ w_ret' = [w_ret EXCEPT ![w] = <<>>]
    /\ Overlapping(w, TRUE)
    /\ UNCHANGED w_shared
    /\ WorkStep

WorkNext ==
    \/ \E w \in Workers : WorkerFormatPredictions(w)
    \/ \E w \in Workers : WorkerFormatTargets(w)
    \/ \E w \in Workers : WorkerIterate(w)
    \/ \E w \in Workers : WorkerReturn(w)
    \/ \E w \in Workers : WorkerAdaptTargets(w)
    \/ \E w \in Workers : WorkerAdaptOutput(w)
    \/ \E w \in Workers : WorkerProcess(w)
    \/ \E w \in Workers : WorkerSqueeze(w)
    \/ \E w \in Workers : WorkerFinish(w)

SpecWorkers == Init /\ [][WorkNext]_vars

(***************************************************************************)
(* The training, validation and test steps.                                *)
(***************************************************************************)
\* the step is called with a batch: outputs = self(pixel_values=...,
\* labels=batch["labels"])
BeginStep(stage) ==
    /\ step_pc = "idle"
    /\ \E batch \in StepBatches :
          /\ \A name \in StepMetrics(stage) :
                step_metrics[name].updates + Len(batch.pixel_values.data)
                    <= MaxUpdates
          /\ step_batch' = batch
          /\ step_labels' = Some(batch.labels)
    /\ step_pc' = "forward"
    /\ step_stage' = stage
    /\ step_logged' = [stage |-> "none"]
    /\ UNCHANGED <<step_calls, step_outputs, step_predictions, step_targets,
                   step_updates, step_ret, step_model_calls, step_metrics,
                   step_expected>>
    /\ ModelStep

TrainingStep == BeginStep("train")
ValidationStep == BeginStep("val")
TestStep == BeginStep("test")

\* an exception leaves the step
StepRaises(r) ==
    /\ step_pc' = "raised"
    /\ step_ret' = r

\* an adapter operation is invoked
Invoked(name) == step_calls' = Append(step_calls, name)

\* forward: if pixel_values.dim() != 4: raise ValueError
ForwardValidate ==
    /\ step_pc = "forward"
    /\ IF ~ValidInput(step_batch.pixel_values)
       THEN StepRaises(Raise("ValueError", {}))
       ELSE /\ step_pc' = AfterValidate(step_labels)
            /\ UNCHANGED step_ret
    /\ UNCHANGED <<step_stage, step_batch, step_calls, step_labels,
                   step_outputs, step_predictions, step_targets,
                   step_updates>>
    /\ UNCHANGED step_model_calls
    /\ UNCHANGED <<step_metrics, step_expected, step_logged>>
    /\ ModelStep

\* forward: labels = self.output_adapter.adapt_targets(labels)
ForwardAdaptTargets ==
    /\ step_pc = "adapt_targets"
    /\ Invoked("adapt_targets")
    /\ LET r == sem_adapt_targets(step_labels.val)
       IN  IF r.ok
           THEN /\ step_labels' = Some(r.val)
                /\ step_pc' = "model"
                /\ UNCHANGED step_ret
           ELSE /\ StepRaises(r)
                /\ UNCHANGED step_labels
    /\ UNCHANGED <<step_stage, step_batch, step_outputs, step_predictions,
                   step_targets, step_updates>>
    /\ UNCHANGED step_model_calls
    /\ UNCHANGED <<step_metrics, step_expected, step_logged>>
    /\ ModelStep

\* forward: outputs = self.model(pixel_values=pixel_values, labels=labels)
ForwardModel ==
    /\ step_pc = "model"
    /\ step_outputs' = ModelCall(step_batch.pixel_values, step_labels)
    /\ step_pc' = "adapt_output"
    /\ UNCHANGED <<step_stage, step_batch, step_calls, step_labels,
                   step_predictions, step_targets, step_updates, step_ret>>
    /\ step_model_calls' = step_model_calls + 1
    /\ UNCHANGED <<step_metrics, step_expected, step_logged>>
    /\ ModelStep

\* forward: return self.output_adapter.adapt_output(outputs)
ForwardAdaptOutput ==
    /\ step_pc = "adapt_output"
    /\ Invoked("adapt_output")
    /\ LET r == sem_adapt_output(step_outputs)
       IN  IF r.ok
           THEN /\ step_outputs' = r.val
                /\ IF step_stage = "forward"
                   THEN /\ step_pc' = "done"
                        /\ step_ret' = r
                   ELSE /\ step_pc' = "format_predictions"
                        /\ UNCHANGED step_ret
           ELSE /\ StepRaises(r)
                /\ UNCHANGED step_outputs
    /\ UNCHANGED <<step_stage, step_batch, step_labels, step_predictions,
                   step_targets, step_updates>>
    /\ UNCHANGED step_model_calls
    /\ UNCHANGED <<step_metrics, step_expected, step_logged>>
    /\ ModelStep

\* predictions = self._format_predictions(outputs)
StepFormatPredictions ==
    /\ step_pc = "format_predictions"
    /\ Invoked("format_predictions")
    /\ LET r == sem_format_predictions(step_outputs)
       IN  IF r.ok
           THEN /\ step_predictions' = r.val
                /\ step_pc' = "format_targets"
                /\ UNCHANGED step_ret
           ELSE /\ StepRaises(r)
                /\ UNCHANGED step_predictions
    /\ UNCHANGED <<step_stage, step_batch, step_labels, step_outputs,
                   step_targets, step_updates>>
    /\ UNCHANGED step_model_calls
    /\ UNCHANGED <<step_metrics, step_expected, step_logged>>
    /\ ModelStep

\* targets = self._format_targets(batch)
StepFormatTargets ==
    /\ step_pc = "format_targets"
    /\ Invoked("format_targets")
    /\ LET r == sem_format_targets(step_batch.labels)
       IN  IF r.ok
           THEN /\ step_targets' = r.val
                /\ step_pc' = "metrics"
                /\ UNCHANGED step_ret
           ELSE /\ StepRaises(r)
                /\ UNCHANGED step_targets
    /\ UNCHANGED <<step_stage, step_batch, step_labels, step_outputs,
                   step_predictions, step_updates>>
    /\ UNCHANGED step_model_calls
    /\ UNCHANGED <<step_metrics, step_expected, step_logged>>
    /\ ModelStep

\* for pred, target in zip(predictions, targets): update the metrics
StepUpdateMetrics ==
    /\ step_pc = "metrics"
    /\ step_updates' = MetricUpdates(step_stage, step_predictions,
                                     step_targets)
    /\ step_pc' = "log"
    /\ UNCHANGED <<step_stage, step_batch, step_calls, step_labels,
                   step_outputs, step_predictions, step_targets, step_ret>>
    /\ step_metrics' =
          [name \in Stages \X MetricKinds |->
              IF name \in StepMetrics(step_stage)
              THEN MetricAfter(step_metrics[name], step_updates')
              ELSE step_metrics[name]]
    /\ step_expected' = [step_expected EXCEPT
                            ![step_stage] = MetricAfter(@, step_updates')]
    /\ UNCHANGED <<step_model_calls, step_logged>>
    /\ ModelStep

\* the loss is logged; hasattr(outputs, 'logits') is false of the dict
\* the adapter returned, so nothing is deleted; the training step returns
\* the loss and the other steps return None
StepReturn ==
    /\ step_pc = "log"
    /\ step_pc' = "done"
    /\ step_ret' = IF step_stage = "train"
                   THEN Ok(step_outputs["loss"]) ELSE Ok(None)
    /\ UNCHANGED <<step_stage, step_batch, step_calls, step_labels,
                   step_outputs, step_predictions, step_targets,
                   step_updates>>
    /\ UNCHANGED step_model_calls
    /\ UNCHANGED <<step_metrics, step_expected, step_logged>>
    /\ ModelStep

\* the locals of the step are dropped; the model is ready for the next batch
StepFinish ==
    /\ step_pc \in {"done", "raised"}
    /\ step_pc' = "idle"
    /\ step_stage' = "none"
    /\ step_batch' = <<>>
    /\ step_calls' = <<>>
    /\ step_labels' = Nothing
    /\ step_outputs' = <<>>
    /\ step_predictions' = <<>>
    /\ step_targets' = <<>>
    /\ step_updates' = <<>>
    /\ step_ret' = <<>>
    /\ step_model_calls' = 0
    /\ UNCHANGED <<step_metrics, step_expected, step_logged>>
    /\ ModelStep

\* forward is called on its own, with or without labels
ForwardCall ==
    /\ step_pc = "idle"
    /\ \E batch \in StepBatches, with_labels \in BOOLEAN :
          /\ step_batch' = batch
          /\ step_labels' = IF with_labels THEN Some(batch.labels)
                            ELSE Nothing
    /\ step_pc' = "forward"
    /\ step_stage' = "forward"
    /\ UNCHANGED <<step_calls, step_outputs, step_predictions, step_targets,
                   step_updates, step_ret, step_model_calls>>
    /\ UNCHANGED <<step_metrics, step_expected, step_logged>>
    /\ ModelStep

\* the epoch end of a stage: the stage's metrics are computed and logged,
\* then reset; compute() gives the share of the pairs with equal classes,
\* as the pair of numerator and denominator
OnEpochEnd(stage) ==
    /\ step_pc = "idle"
    /\ step_logged' =
          [stage |-> stage,
           values |-> [name \in EpochEndMetrics(stage) |->
                         <<step_metrics[name].correct,
                           step_metrics[name].updates>>],
           expected |-> step_expected[stage]]
    /\ step_metrics' = [name \in Stages \X MetricKinds |->
                          IF name \in EpochEndMetrics(stage)
                          THEN FreshMetric ELSE step_metrics[name]]
    /\ step_expected' = [step_expected EXCEPT ![stage] = FreshMetric]
    /\ UNCHANGED <<step_pc, step_stage, step_batch, step_calls, step_labels,
                   step_outputs, step_predictions, step_targets,
                   step_updates, step_ret, step_model_calls>>
    /\ ModelStep

OnTrainEpochEnd == OnEpochEnd("train")
OnValidationEpochEnd == OnEpochEnd("val")
OnTestEpochEnd == OnEpochEnd("test")

StepNext ==
    \/ TrainingStep
    \/ ValidationStep
    \/ TestStep
    \/ ForwardValidate
    \/ ForwardAdaptTargets
    \/ ForwardModel
    \/ ForwardAdaptOutput
    \/ StepFormatPredictions
    \/ StepFormatTargets
    \/ StepUpdateMetrics
    \/ StepReturn
    \/ StepFinish
    \/ OnTrainEpochEnd
    \/ OnValidationEpochEnd
    \/ OnTestEpochEnd

SpecStep == Init /\ [][StepNext]_vars

\* calls of forward on its own
ForwardNext ==
    \/ ForwardCall
    \/ ForwardValidate
    \/ ForwardAdaptTargets
    \/ ForwardModel
    \/ ForwardAdaptOutput
    \/ StepFinish

SpecForward == Init /\ [][ForwardNext]_vars

(***************************************************************************)
(* Calls on a UnifiedTrainer.                                              *)
(***************************************************************************)
\* a new UnifiedTrainer takes the place of the one in use
Construct ==
    /\ \E distributed \in BOOLEAN, model \in Models,
          data_module \in DataModules :
          t_self' = UnifiedTrainer(distributed, model, data_module)
    /\ t_call' = [op |-> "__init__"]
    /\ t_events' = <<>>
    /\ t_ret' = Ok(None)
    /\ TrainerStep

Train ==
    /\ t_self.made < MaxTrainers
    /\ \E ray_installed \in BOOLEAN :
          LET call == train(t_self, ray_installed)
          IN  /\ t_self' = call.self
              /\ t_events' = call.events
              /\ t_ret' = call.ret
    /\ t_call' = [op |-> "train", before |-> t_self, model |-> None,
                  data_module |-> None]
    /\ TrainerStep

Test ==
    /\ \E model \in Models, data_module \in DataModules :
          LET call == test(t_self, model, data_module)
          IN  /\ t_self' = call.self
              /\ t_events' = call.events
              /\ t_ret' = call.ret
              /\ t_call' = [op |-> "test", before |-> t_self,
                            model |-> model, data_module |-> data_module]
    /\ TrainerStep

TrainerNext ==
    \/ Construct
    \/ Train
    \/ Test

SpecTrainer == Init /\ [][TrainerNext]_vars

(***************************************************************************)
(* Saving and loading checkpoints.                                         *)
(***************************************************************************)
\* a model is made with a config
NewModel ==
    /\ \E m \in ModelIds, config \in Configs :
          /\ ck_config' = [ck_config EXCEPT ![m] = config]
          /\ ck_call' = [op |-> "__init__", model |-> m]
    /\ UNCHANGED <<ck_checkpoint, ck_saved>>
    /\ CheckpointStep

\* a checkpoint of a model is written: the hook gets the checkpoint that
\* the framework has made
SaveCheckpoint ==
    /\ \E m \in ModelIds :
          /\ ck_checkpoint' =
                on_save_checkpoint(ck_config[m],
                                   [k \in {"state_dict"} |-> "weights"])
          /\ ck_saved' = Some(ck_config[m])
          /\ ck_call' = [op |-> "save", model |-> m]
    /\ UNCHANGED ck_config
    /\ CheckpointStep

\* a model reads the checkpoint written latest, or a checkpoint like it
\* that lacks the class_names or the optimizer_params entry
LoadCheckpoint ==
    /\ ck_saved.given
    /\ \E m \in ModelIds,
          lacking \in SUBSET {"class_names", "optimizer_params"} :
          LET checkpoint == [k \in DOMAIN ck_checkpoint \ lacking |->
                               ck_checkpoint[k]]
          IN  /\ ck_config' = [ck_config EXCEPT
                                 ![m] = on_load_checkpoint(@, checkpoint)]
              /\ ck_call' = [op |-> "load", model |-> m,
                             checkpoint |-> checkpoint,
                             before |-> ck_config[m]]
    /\ UNCHANGED <<ck_checkpoint, ck_saved>>
    /\ CheckpointStep

CheckpointNext ==
    \/ NewModel
    \/ SaveCheckpoint
    \/ LoadCheckpoint

SpecCheckpoint == Init /\ [][CheckpointNext]_vars

(***************************************************************************)
(* Properties.                                                             *)
(***************************************************************************)
\* The spec's error kind SchemaError (a required field is absent, or the
\* fields of a batch disagree) has no class of its own in the code: it is
\* raised as the built-in exception of the failed check or field access.
SchemaError == {"ValueError", "AttributeError", "KeyError", "IndexError"}

\* the fields a raw output exposes, by key for a dict, else by attribute
FieldsOf(o) == IF o.isdict THEN o.keys ELSE o.attrs

\* every key of ks is in d, and the tensors under them all have n slices
UniformBatch(d, ks, n) ==
    /\ ks \subseteq DOMAIN d
    /\ \A k \in ks : Len(d[k]) = n

PredKeys == {PredFields[j] : j \in 1..Len(PredFields)}

\* c is the zero-based index of a maximal score of row
IsMaxClass(row, c) ==
    /\ c + 1 \in 1..Len(row)
    /\ \A k \in 1..Len(row) : row[k] <= row[c + 1]

\* C1: on a batch of N >= 1 samples (every batched field present has N
\* slices) format_predictions and format_targets return exactly N records,
\* and every field of record i is slice i of the input field it comes from
\* (class_predictions being a maximal class of row i of logits).
C1_IndexCorrespondence ==
    /\ \A n \in 1..(MaxBatch + 1) :
          (op = "format_predictions" /\ UniformBatch(arg, PredKeys, n)) =>
              /\ ret.ok
              /\ Len(ret.val) = n
              /\ \A i \in 1..n :
                    /\ ret.val[i]["panoptic_masks"]
                           = arg["pred_panoptic_seg"][i]
                    /\ ret.val[i]["instance_masks"] = arg["pred_masks"][i]
                    /\ ret.val[i]["bounding_boxes"] = arg["pred_boxes"][i]
                    /\ IsMaxClass(arg["logits"][i],
                                  ret.val[i]["class_predictions"])
    /\ \A n \in 1..(MaxBatch + 1) :
          (/\ op = "format_targets"
           /\ DOMAIN arg \cap {"panoptic_masks", "labels"} # {}
           /\ UniformBatch(arg, DOMAIN arg, n)) =>
              /\ ret.ok
              /\ Len(ret.val) = n
              /\ \A i \in 1..n :
                    /\ DOMAIN ret.val[i]
                           = {"panoptic_masks"}
                             \cup (DOMAIN arg
                                   \cap {"bounding_boxes", "class_labels"})
                    /\ ret.val[i]["panoptic_masks"]
                           = (IF "panoptic_masks" \in DOMAIN arg
                              THEN arg["panoptic_masks"][i]
                              ELSE arg["labels"][i])
                    /\ \A k \in DOMAIN arg
                                \cap {"bounding_boxes", "class_labels"} :
                          ret.val[i][k] = arg[k][i]

C1_Witness ==
    /\ op = "format_predictions"
    /\ UniformBatch(arg, PredKeys, 2)
    /\ ret.ok
    /\ Len(ret.val) = 2
    /\ ret.val[1]["bounding_boxes"] # ret.val[2]["bounding_boxes"]
    /\ ret.val[1]["class_predictions"] # ret.val[2]["class_predictions"]

\* the input keys an output key of adapt_targets may take its value from
SourceKeys(k) ==
    IF k = "labels" THEN {"panoptic_masks", "labels"}
    ELSE IF k = "boxes" THEN {"bounding_boxes"}
    ELSE {"class_labels"}

\* C2: adapt_targets returns a re-keying of a subset of its input: the
\* output has only the keys labels, boxes and class_labels, each present
\* only when one of its source keys is in the input and holding exactly the
\* input's value under such a source key.
C2_StrictRekeying ==
    op = "adapt_targets" =>
        /\ ret.ok
        /\ DOMAIN ret.val \subseteq {"labels", "boxes", "class_labels"}
        /\ \A k \in DOMAIN ret.val :
              \E src \in SourceKeys(k) \cap DOMAIN arg :
                  ret.val[k] = arg[src]

C2_Witness ==
    /\ op = "adapt_targets"
    /\ DOMAIN arg = {"labels", "class_labels"}
    /\ Len(arg["labels"]) = 2
    /\ ret.ok
    /\ DOMAIN ret.val = {"labels", "class_labels"}

\* C3: when the annotation has both panoptic_masks and labels, the labels
\* field of adapt_targets' result is the value of panoptic_masks.
C3_PanopticMasksPriority ==
    (op = "adapt_targets" /\ {"panoptic_masks", "labels"} \subseteq DOMAIN arg)
        => /\ ret.ok
           /\ "labels" \in DOMAIN ret.val
           /\ ret.val["labels"] = arg["panoptic_masks"]

C3_Witness ==
    /\ op = "adapt_targets"
    /\ {"panoptic_masks", "labels"} \subseteq DOMAIN arg
    /\ arg["panoptic_masks"] # arg["labels"]
    /\ ret.ok
    /\ ret.val["labels"] # arg["labels"]

\* C4: format_targets on an annotation with neither panoptic_masks nor
\* labels returns no records: it raises a schema error (the code's
\* ValueError) whose message names both accepted keys.
C4_MissingMaskKeyRaises ==
    (op = "format_targets"
     /\ DOMAIN arg \cap {"panoptic_masks", "labels"} = {})
        => /\ ~ret.ok
           /\ ret.exc \in SchemaError
           /\ ret.exc = "ValueError"
           /\ ret.msg = {"panoptic_masks", "labels"}

C4_Witness ==
    /\ op = "format_targets"
    /\ DOMAIN arg = {"bounding_boxes"}
    /\ Len(arg["bounding_boxes"]) > 0
    /\ ~ret.ok

\* C5: adapt_output on a raw output with no loss attribute and no loss key,
\* and with logits and the prediction fields, returns a mapping with loss
\* None and the other fields taken from the raw output.
C5_FallbackLoss ==
    (/\ op = "adapt_output"
     /\ "loss" \notin DOMAIN arg.attrs
     /\ "loss" \notin DOMAIN arg.keys
     /\ PredKeys \subseteq DOMAIN FieldsOf(arg))
        => /\ ret.ok
           /\ ret.val["loss"] = None
           /\ \A k \in PredKeys : ret.val[k] = FieldsOf(arg)[k]

\* C6: a raw output exposing its fields by key is adapted to the same
\* result as the raw output exposing the same fields by attribute.
C6_EitherAccessShape ==
    op = "adapt_output" =>
        LET twin == adapt_output(MakeRaw("object", FieldsOf(arg)))
        IN  /\ ret.ok = twin.ok
            /\ ret.ok => ret.val = twin.val

\* C7: adapt_output never fails over loss or loss_dict: an exception it
\* raises names a prediction field, and a raw output with the four
\* prediction attributes is adapted whether or not loss and loss_dict are
\* there (loss None, loss_dict empty when missing).  When logits is absent
\* from the raw output it raises a schema error naming logits.
C7_OptionalAndRequiredFields ==
    op = "adapt_output" =>
        /\ ~ret.ok => /\ ret.msg \cap {"loss", "loss_dict"} = {}
                      /\ ret.msg \subseteq PredKeys
                      /\ ret.msg # {}
        /\ PredKeys \subseteq DOMAIN arg.attrs =>
              /\ ret.ok
              /\ "loss" \notin DOMAIN FieldsOf(arg) => ret.val["loss"] = None
              /\ "loss_dict" \notin DOMAIN FieldsOf(arg) =>
                    ret.val["loss_dict"] = EmptyDict
        /\ "logits" \notin DOMAIN FieldsOf(arg) =>
              /\ ~ret.ok
              /\ ret.exc \in SchemaError
              /\ ret.msg = {"logits"}

C7_Witness ==
    /\ op = "adapt_output"
    /\ ~arg.isdict
    /\ DOMAIN arg.attrs = PredKeys
    /\ Len(arg.attrs["logits"]) > 0
    /\ ret.ok
    /\ ret.val["loss"] = None
    /\ ret.val["loss_dict"] = EmptyDict

\* C8: for a raw output whose prediction fields all have N slices,
\* adapt_output returns and format_predictions of its result returns N
\* records.
C8_RoundTripShape ==
    /\ \A n \in 0..(MaxBatch + 1) :
          (op = "adapt_output" /\ UniformBatch(FieldsOf(arg), PredKeys, n))
              => ret.ok
    /\ \A n \in 0..(MaxBatch + 1) :
          (/\ op = "format_predictions"
           /\ chained
           /\ UniformBatch(FieldsOf(raw), PredKeys, n))
              => ret.ok /\ Len(ret.val) = n

\* C9: format_predictions returns as many records as logits has slices, and
\* raises a schema error whenever the four batched fields do not all have
\* the same number of slices.
C9_MismatchRaises ==
    (op = "format_predictions" /\ PredKeys \subseteq DOMAIN arg) =>
        /\ ret.ok => Len(ret.val) = Len(arg["logits"])
        /\ (\E k \in PredKeys : Len(arg[k]) # Len(arg["logits"])) =>
              ~ret.ok /\ ret.exc \in SchemaError

\* model_name holds the family pattern at no position, in no letter case
NoFamilyPattern(model_name) ==
    ~\E k \in 0..(Len(model_name) - Len(Mask2FormerPattern)) :
        \A j \in 1..Len(Mask2FormerPattern) :
            LowerChar(model_name[k + j]) = Mask2FormerPattern[j]

\* C10: for a model name matching no pattern, whatever the image size and
\* the state of the model registry, get_input_adapter returns a
\* NoOpInputAdapter and get_output_adapter returns the
\* PanopticSegmentationOutputAdapter; neither raises.
C10_UnknownNameDefaults ==
    /\ (op = "get_input_adapter" /\ NoFamilyPattern(arg.model_name))
          => ret.ok /\ ret.val.kind = "NoOpInputAdapter"
    /\ (op = "get_output_adapter" /\ NoFamilyPattern(arg.model_name))
          => ret.ok /\ ret.val.kind = "PanopticSegmentationOutputAdapter"

C10_Witness ==
    /\ op = "get_input_adapter"
    /\ arg.model_name = <<"t", "o", "t", "a", "l", "l", "y", "-", "u", "n",
                          "k", "n", "o", "w", "n", "-", "a", "r", "c", "h">>
    /\ arg.image_size = 512
    /\ ret.ok
    /\ ret.val.kind = "NoOpInputAdapter"

\* C11: get_input_adapter matches the family pattern as a case-insensitive
\* substring: a name holding mask2former at some position in some letter
\* case selects the Mask2FormerInputAdapter, constructed for the name as
\* given and the image size (it is returned whenever the recipe lookup
\* succeeds), and every other name selects the NoOpInputAdapter.
C11_CaseInsensitiveSubstring ==
    op = "get_input_adapter" =>
        IF NoFamilyPattern(arg.model_name)
        THEN /\ ret.ok
             /\ ret.val.kind = "NoOpInputAdapter"
             /\ registry.lookups = 0
        ELSE /\ registry.lookups = 1
             /\ registry.ok => ret.ok
             /\ ret.ok =>
                   /\ ret.val.kind = "Mask2FormerInputAdapter"
                   /\ ret.val.processor.model_name = arg.model_name
                   /\ ret.val.image_size = arg.image_size

C11_Witness ==
    /\ op = "get_input_adapter"
    /\ arg.model_name = <<"f", "b", "/", "M", "A", "S", "K", "2", "f", "o",
                          "r", "m", "e", "r", "-", "s">>
    /\ ret.ok
    /\ ret.val.kind = "Mask2FormerInputAdapter"

\* C13: every input adapter returns the annotation it was given, unchanged,
\* as the second element of its result.
C13_AnnotationPassThrough ==
    op = "input_adapter" =>
        /\ ret.ok
        /\ Len(ret.val) = 2
        /\ DOMAIN ret.val[2] = DOMAIN arg.target
        /\ \A k \in DOMAIN arg.target : ret.val[2][k] = arg.target[k]

C13_Witness ==
    /\ op = "input_adapter"
    /\ arg.adapter.kind = "NoOpInputAdapter"
    /\ DOMAIN arg.target = {"panoptic_masks", "bounding_boxes"}
    /\ Len(arg.target["panoptic_masks"]) = 2
    /\ ret.ok
    /\ DOMAIN ret.val[2] = {"panoptic_masks", "bounding_boxes"}

\* C14: when the recipe lookup fails while get_input_adapter constructs the
\* family adapter, the caller gets the lookup's own exception: no adapter
\* is returned and the lookup is made once.
C14_FetchFailurePropagates ==
    (/\ op = "get_input_adapter"
     /\ ~NoFamilyPattern(arg.model_name)
     /\ ~registry.ok)
        => /\ ~ret.ok
           /\ ret.exc = "OSError"
           /\ registry.lookups = 1

C14_Witness ==
    /\ op = "get_input_adapter"
    /\ arg.model_name = Mask2FormerPattern
    /\ ~registry.ok
    /\ ~ret.ok

\* C19: adapt_targets raises when the annotation has neither panoptic_masks
\* nor labels.
C19_MissingMaskRaises ==
    (op = "adapt_targets"
     /\ DOMAIN arg \cap {"panoptic_masks", "labels"} = {})
        => ~ret.ok

Selectors == {"get_input_adapter", "get_output_adapter"}
OutputOps == {"adapt_output", "adapt_targets", "format_predictions",
              "format_targets"}

\* C12: the selectors are deterministic: a call of a selector that returns
\* an adapter returns the kind of adapter that an earlier call of the same
\* selector with the same model name returned, whatever calls were made in
\* between and whatever image size the two calls asked for.
C12_SelectorDeterminism ==
    (/\ h_op \in Selectors
     /\ h_memo.op = h_op
     /\ h_memo.given.model_name = h_given.model_name
     /\ h_memo.ret.ok
     /\ h_ret.ok)
        => h_ret.val.kind = h_memo.ret.val.kind

C12_Witness ==
    /\ h_op = "get_input_adapter"
    /\ h_memo.op = "get_input_adapter"
    /\ h_since = 2
    /\ h_given.model_name = Mask2FormerPattern
    /\ h_memo.given.model_name = Mask2FormerPattern
    /\ h_memo.given.image_size # h_given.image_size
    /\ h_memo.ret.ok
    /\ h_ret.ok
    /\ h_ret.val.kind = "Mask2FormerInputAdapter"

\* C15: the four output adapter operations are pure: a call leaves the
\* input mapping as it was given and the adapter without attributes, and
\* its outcome is the outcome of an earlier call on an equal input.
C15_PureOperations ==
    h_op \in OutputOps =>
        /\ h_held = h_given
        /\ h_self = EmptyDict
        /\ (h_memo.op = h_op /\ h_memo.given = h_given)
              => h_ret = h_memo.ret

C15_Witness ==
    /\ h_op = "adapt_targets"
    /\ h_memo.op = "adapt_targets"
    /\ h_since = 2
    /\ h_memo.given = h_given
    /\ DOMAIN h_given = {"panoptic_masks", "labels", "bounding_boxes"}
    /\ h_ret.ok
    /\ DOMAIN h_ret.val = {"labels", "boxes"}
    /\ h_held = h_given

\* what the call returns or raises when no other call runs
Alone(call) ==
    CASE call.op = "format_predictions" -> format_predictions(call.arg)
      [] call.op = "format_targets" -> format_targets(call.arg)
      [] call.op = "adapt_targets" -> adapt_targets(call.arg)
      [] call.op = "adapt_output" -> adapt_output(call.arg)
      [] call.op = "input_adapter" ->
            Mask2FormerInputAdapter_call(SharedAdapters.input_adapter,
                                         call.arg.image, call.arg.target)

\* C16: workers calling the shared adapters concurrently each get the
\* outcome their call has when it runs alone, and the shared adapters stay
\* as they were constructed.
C16_ConcurrentWorkers ==
    /\ w_shared = SharedAdapters
    /\ \A w \in Workers : w_pc[w] = "done" => w_ret[w] = Alone(w_call[w])

C16_Witness ==
    /\ w_pc["w1"] = "done"
    /\ w_call["w1"].op = "format_predictions"
    /\ w_overlap["w1"]
    /\ w_ret["w1"].ok
    /\ Len(w_ret["w1"].val) = MaxBatch
    /\ w_pc["w2"] = "loop"
    /\ w_call["w2"].op = "format_predictions"
    /\ w_i["w2"] = 2
    /\ w_overlap["w2"]

FourOperations == <<"adapt_targets", "adapt_output", "format_predictions",
                    "format_targets">>

\* C17: a training, validation or test step invokes the four operations of
\* the output adapter once each in the order adapt_targets, adapt_output,
\* format_predictions, format_targets: the operations invoked so far are
\* always the first ones of that order, with adapt_targets before and
\* adapt_output after the model call, and all four have been invoked when
\* the step updates its metrics and when it returns.
C17_FourOperationsInOrder ==
    /\ \E k \in 0..4 : step_calls = SubSeq(FourOperations, 1, k)
    /\ step_pc = "model" => step_calls = SubSeq(FourOperations, 1, 1)
    /\ step_pc = "adapt_output" => step_calls = SubSeq(FourOperations, 1, 1)
    /\ step_pc = "format_predictions" =>
          step_calls = SubSeq(FourOperations, 1, 2)
    /\ step_pc \in {"metrics", "log", "done"} => step_calls = FourOperations

C17_Witness ==
    /\ step_pc = "done"
    /\ step_stage = "val"
    /\ step_calls = FourOperations
    /\ Len(step_batch.pixel_values.data) = MaxBatch
    /\ step_ret = Ok(None)

Missing(call) ==
    \/ call.before.model = None /\ call.model = None
    \/ call.before.data_module = None /\ call.data_module = None

\* C20: train() and test() raise ValueError when the model or the data
\* module is missing; self.trainer then is what it was before the call, no
\* Lightning trainer has been created, and no fit run, test run or cluster
\* setup has been started.
C20_MissingPartsRaise ==
    (t_call.op \in {"train", "test"} /\ Missing(t_call)) =>
        /\ ~t_ret.ok
        /\ t_ret.exc = "ValueError"
        /\ t_self.trainer = t_call.before.trainer
        /\ t_self.made = t_call.before.made
        /\ t_events = <<>>

C20_Witness ==
    /\ t_call.op = "train"
    /\ t_call.before.model = None
    /\ t_call.before.data_module = "data_a"
    /\ t_call.before.distributed
    /\ ~t_ret.ok
    /\ t_self.trainer = NoTrainer
    /\ t_events = <<>>

\* C23: test() creates a Lightning trainer only when there is none: when
\* one exists, as after a train(), the test runs on it and it stays in
\* place; when none exists, one trainer is created and the test runs on it.
C23_TestKeepsTrainer ==
    (t_call.op = "test" /\ t_ret.ok) =>
        /\ t_events = <<Event("test", t_self.trainer)>>
        /\ IF t_call.before.trainer # NoTrainer
           THEN /\ t_self.trainer = t_call.before.trainer
                /\ t_self.made = t_call.before.made
           ELSE /\ t_self.trainer = t_call.before.made + 1
                /\ t_self.made = t_call.before.made + 1

\* the second trainer of a UnifiedTrainer can only be one that train()
\* created
C23_Witness ==
    /\ t_call.op = "test"
    /\ t_ret.ok
    /\ t_call.before.trainer = 2
    /\ t_self.trainer = 2
    /\ t_self.made = 2
    /\ t_events = <<Event("test", 2)>>

\* the adapter operation has been invoked in the current call
WasInvoked(name) == \E i \in 1..Len(step_calls) : step_calls[i] = name

\* C24: forward rejects an input tensor that is not 4-dimensional with a
\* ValueError, raised before adapt_targets, the underlying model or
\* adapt_output is invoked; for a 4-dimensional input, adapt_targets is
\* invoked if and only if labels are provided.
C24_ForwardRejectsNon4D ==
    step_pc \notin {"idle", "forward"} =>
        IF step_batch.pixel_values.ndim # 4
        THEN /\ step_pc = "raised"
             /\ step_ret.exc = "ValueError"
             /\ step_calls = <<>>
             /\ step_model_calls = 0
        ELSE /\ step_pc = "adapt_targets" => step_labels.given
             /\ step_pc # "adapt_targets" =>
                   (WasInvoked("adapt_targets") <=> step_labels.given)

C24_Witness ==
    /\ step_stage = "forward"
    /\ step_pc = "raised"
    /\ step_batch.pixel_values.ndim = 3
    /\ step_labels.given
    /\ step_ret.exc = "ValueError"
    /\ step_calls = <<>>
    /\ step_model_calls = 0

\* the five metrics of a stage
StageMetrics(stage) == {<<stage, kind>> : kind \in MetricKinds}

\* C21: over every sequence of training, validation and test steps and
\* epoch ends, each metric of a stage holds exactly what the steps of that
\* stage have fed it since the stage's previous epoch end, so a step of
\* one stage never updates a metric of another stage; the epoch end of a
\* stage logs the five values computed from exactly those updates and
\* leaves the stage's metrics reset.
C21_MetricsPerStage ==
    /\ \A stage \in Stages : \A name \in StageMetrics(stage) :
          step_metrics[name] = step_expected[stage]
    /\ step_logged.stage # "none" =>
          /\ DOMAIN step_logged.values = StageMetrics(step_logged.stage)
          /\ \A name \in StageMetrics(step_logged.stage) :
                /\ step_logged.values[name]
                      = <<step_logged.expected.correct,
                          step_logged.expected.updates>>
                /\ step_metrics[name] = FreshMetric

\* a test epoch end logs the two updates of one test step while the
\* metrics of training and validation hold the updates of their own steps
C21_Witness ==
    /\ step_logged.stage = "test"
    /\ step_logged.expected.updates = 2
    /\ step_logged.values[<<"test", "recall">>] = <<2, 2>>
    /\ step_metrics[<<"train", "dice">>].updates = 1
    /\ step_metrics[<<"val", "recall">>].updates = 2
    /\ step_metrics[<<"test", "recall">>] = FreshMetric

\* the fields of the config that the optimizer_params entry carries
OptimizerFields(config) ==
    <<config.learning_rate, config.weight_decay, config.scheduler,
      config.scheduler_params>>

\* C22: after on_save_checkpoint has written a checkpoint and
\* on_load_checkpoint has read it into a model, the model's class_names,
\* learning_rate, weight_decay, scheduler and scheduler_params equal the
\* values the saving model had when it saved; a checkpoint lacking the
\* class_names or the optimizer_params entry leaves the corresponding
\* fields of the config as they were.
C22_CheckpointRoundTrip ==
    ck_call.op = "load" =>
        LET now == ck_config[ck_call.model]
            before == ck_call.before
            saved == ck_saved.val
        IN  /\ now.class_names =
                   IF "class_names" \in DOMAIN ck_call.checkpoint
                   THEN saved.class_names ELSE before.class_names
            /\ OptimizerFields(now) =
                   IF "optimizer_params" \in DOMAIN ck_call.checkpoint
                   THEN OptimizerFields(saved) ELSE OptimizerFields(before)

\* a model whose five fields all differed from the saved ones has read
\* the whole checkpoint and holds the saved values
C22_Witness ==
    /\ ck_call.op = "load"
    /\ {"class_names", "optimizer_params"} \subseteq DOMAIN ck_call.checkpoint
    /\ ck_call.before.class_names # ck_saved.val.class_names
    /\ ck_call.before.learning_rate # ck_saved.val.learning_rate
    /\ ck_call.before.weight_decay # ck_saved.val.weight_decay
    /\ ck_call.before.scheduler # ck_saved.val.scheduler
    /\ ck_call.before.scheduler_params # ck_saved.val.scheduler_params
    /\ ck_saved.val.class_names = Some(<<"road", "car">>)
    /\ ck_saved.val.scheduler_params = Some([step_size |-> 10])
    /\ ck_config[ck_call.model].class_names = ck_saved.val.class_names
    /\ OptimizerFields(ck_config[ck_call.model])
          = OptimizerFields(ck_saved.val)

=============================================================================
